---- MODULE Spec2Model ----
(***************************************************************************)
(* Model of the POST /api/transform route handler (request validation,     *)
(* two-pass model invocation, response validation and sanitization).       *)
(*                                                                         *)
(* Strings are run-length encoded: a string is a sequence of runs          *)
(* [c |-> chunk, n |-> count], the chunk repeated count times.  A chunk is *)
(* either one whitespace character or a piece of text that neither starts  *)
(* nor ends with whitespace.  JSON values are tagged records [t, v].       *)
(***************************************************************************)
EXTENDS Integers, Sequences, FiniteSets, TLC

\* ------------------------------------------------------------------ bounds

\* how far beyond a size ceiling the sampled inputs go
MaxOver == 1
\* longest next_actions list a sampled model reply carries
MaxActions == 2

\* --------------------------------------------------------------- constants

MAX_INPUT_CHARS == 100000
MAX_FILE_BYTES == 10485760
MAX_NOTES_CHARS == 10000

\* ----------------------------------------------------------------- strings

Run(c, n) == [c |-> c, n |-> n]
Lit(c) == <<Run(c, 1)>>
Rep(c, n) == IF n = 0 THEN <<>> ELSE <<Run(c, n)>>
Empty == <<>>
Sp == Lit(" ")

IsWs(c) == c \in {" ", "\n", "\t"}

RECURSIVE StrLen(_)
StrLen(s) == IF s = <<>> THEN 0 ELSE Len(Head(s).c) * Head(s).n + StrLen(Tail(s))

RECURSIVE TrimStart(_)
TrimStart(s) ==
  IF s = <<>> THEN s
  ELSE IF IsWs(Head(s).c) THEN TrimStart(Tail(s)) ELSE s

RECURSIVE TrimEnd(_)
TrimEnd(s) ==
  IF s = <<>> THEN s
  ELSE IF IsWs(s[Len(s)].c) THEN TrimEnd(SubSeq(s, 1, Len(s) - 1)) ELSE s

Trim(s) == TrimEnd(TrimStart(s))

\* Number.prototype.toLocaleString(): decimal digits grouped in threes
Pad3(n) ==
  IF n < 10 THEN "00" \o ToString(n)
  ELSE IF n < 100 THEN "0" \o ToString(n) ELSE ToString(n)

RECURSIVE GroupDigits(_)
GroupDigits(n) ==
  IF n < 1000 THEN ToString(n)
  ELSE GroupDigits(n \div 1000) \o "," \o Pad3(n % 1000)

toLocaleString(n) == Lit(GroupDigits(n))

\* -------------------------------------------------------------- JSON values

JUndef == [t |-> "undefined", v |-> <<>>]
JNull == [t |-> "null", v |-> <<>>]
JNum(n) == [t |-> "num", v |-> n]
JStr(s) == [t |-> "str", v |-> s]
JArr(a) == [t |-> "arr", v |-> a]
JObj(o) == [t |-> "obj", v |-> o]

Get(o, k) == IF k \in DOMAIN o.v THEN o.v[k] ELSE JUndef

\* ---------------------------------------------------------------------- zod

NoMax == -1
ZString(min, max) == [z |-> "string", min |-> min, max |-> max, of |-> <<>>, shape |-> <<>>]
ZArray(e) == [z |-> "array", min |-> 0, max |-> NoMax, of |-> <<e>>, shape |-> <<>>]
ZObject(sh) == [z |-> "object", min |-> 0, max |-> NoMax, of |-> <<>>, shape |-> sh]
ZOptional(e) == [z |-> "optional", min |-> 0, max |-> NoMax, of |-> <<e>>, shape |-> <<>>]

\* the issue codes schema.parse(value) raises (empty: the value is accepted)
RECURSIVE ZIssues(_, _)
ZIssues(s, x) ==
  CASE s.z = "optional" ->
         IF x.t = "undefined" THEN {} ELSE ZIssues(s.of[1], x)
    [] s.z = "string" ->
         IF x.t # "str" THEN {"invalid_type"}
         ELSE (IF StrLen(x.v) < s.min THEN {"too_small"} ELSE {})
              \cup (IF s.max # NoMax /\ StrLen(x.v) > s.max THEN {"too_big"} ELSE {})
    [] s.z = "array" ->
         IF x.t # "arr" THEN {"invalid_type"}
         ELSE UNION {ZIssues(s.of[1], x.v[i]) : i \in DOMAIN x.v}
    [] s.z = "object" ->
         IF x.t # "obj" THEN {"invalid_type"}
         ELSE UNION {ZIssues(s.shape[k], Get(x, k)) : k \in DOMAIN s.shape}

\* mutant: parse returns its input, unknown keys included
ZOut_Passthrough(s, x) == x

\* the value schema.parse(value) returns for an accepted value: objects keep
\* the keys of the shape only, an absent optional key stays absent
RECURSIVE ZOut(_, _)
ZOut(s, x) ==
  CASE s.z = "optional" ->
         IF x.t = "undefined" THEN JUndef ELSE ZOut(s.of[1], x)
    [] s.z = "string" -> x
    [] s.z = "array" -> JArr([i \in DOMAIN x.v |-> ZOut(s.of[1], x.v[i])])
    [] s.z = "object" ->
         JObj([k \in {kk \in DOMAIN s.shape : Get(x, kk).t # "undefined"} |->
                 ZOut(s.shape[k], Get(x, k))])

\* mutant: the lower length bound of text is forgotten
transformRequestSchema_NoMin ==
  ZObject([text |-> ZString(0, MAX_INPUT_CHARS),
           notes |-> ZOptional(ZString(0, MAX_NOTES_CHARS))])

transformRequestSchema ==
  ZObject([text |-> ZString(1, MAX_INPUT_CHARS),
           notes |-> ZOptional(ZString(0, MAX_NOTES_CHARS))])

transformFileNotesSchema ==
  ZObject([notes |-> ZOptional(ZString(0, MAX_NOTES_CHARS))])

\* mutant: summary is declared optional
transformResponseSchema_OptionalSummary ==
  ZObject([title |-> ZString(0, NoMax),
           summary |-> ZOptional(ZString(0, NoMax)),
           sections |-> ZArray(ZObject([heading |-> ZString(0, NoMax),
                                        bullets |-> ZArray(ZString(0, NoMax))])),
           next_actions |-> ZArray(ZObject([action |-> ZString(0, NoMax),
                                            first_step |-> ZString(0, NoMax)]))])

\* mutant: an action's first_step may be missing
transformResponseSchema_OptionalFirstStep ==
  ZObject([title |-> ZString(0, NoMax),
           summary |-> ZString(0, NoMax),
           sections |-> ZArray(ZObject([heading |-> ZString(0, NoMax),
                                        bullets |-> ZArray(ZString(0, NoMax))])),
           next_actions |-> ZArray(ZObject([action |-> ZString(0, NoMax),
                                            first_step |-> ZOptional(ZString(0, NoMax))]))])

transformResponseSchema ==
  ZObject([title |-> ZString(0, NoMax),
           summary |-> ZString(0, NoMax),
           sections |-> ZArray(ZObject([heading |-> ZString(0, NoMax),
                                        bullets |-> ZArray(ZString(0, NoMax))])),
           next_actions |-> ZArray(ZObject([action |-> ZString(0, NoMax),
                                            first_step |-> ZString(0, NoMax)]))])

\* mutant: the notes are not trimmed before the test
shouldApplyNotesRewritePass_NoTrim(notes) ==
  /\ notes.t = "str"
  /\ StrLen(notes.v) > 0

\* Boolean(notes && notes.trim().length > 0); notes is a JSON string or JUndef
shouldApplyNotesRewritePass(notes) ==
  /\ notes.t = "str"
  /\ StrLen(notes.v) > 0
  /\ StrLen(Trim(notes.v)) > 0

\* mutant: an entry is kept when either field is non-blank
KeepAction_Or(a) ==
  \/ StrLen(Trim(Get(a, "action").v)) > 0
  \/ StrLen(Trim(Get(a, "first_step").v)) > 0

\* validated.next_actions.filter(...) inside {...validated, next_actions: ...}
KeepAction(a) ==
  /\ StrLen(Trim(Get(a, "action").v)) > 0
  /\ StrLen(Trim(Get(a, "first_step").v)) > 0

RECURSIVE DropFirstBlank(_)
DropFirstBlank(as) ==
  IF as = <<>> THEN as
  ELSE IF ~KeepAction(Head(as)) THEN Tail(as)
  ELSE <<Head(as)>> \o DropFirstBlank(Tail(as))

\* mutant: only the first blank entry is removed
Sanitize_DropFirstBlank(validated) ==
  JObj([validated.v EXCEPT !.next_actions = JArr(DropFirstBlank(validated.v.next_actions.v))])

\* mutant: empty bullets are removed from the sections as well
Sanitize_DropEmptyBullets(validated) ==
  JObj([validated.v EXCEPT
          !.next_actions = JArr(SelectSeq(validated.v.next_actions.v, KeepAction)),
          !.sections = JArr([i \in DOMAIN validated.v.sections.v |->
                               JObj([validated.v.sections.v[i].v EXCEPT
                                       !.bullets = JArr(SelectSeq(@.v, LAMBDA b : StrLen(b.v) > 0))])])])

Sanitize(validated) ==
  JObj([validated.v EXCEPT
          !.next_actions = JArr(SelectSeq(validated.v.next_actions.v, KeepAction))])

\* the client's filter of the entries it renders
IsMeaningfulAction(a) ==
  /\ StrLen(Trim(a.v.action.v)) > 0
  /\ StrLen(Trim(a.v.first_step.v)) > 0

getMeaningfulNextActions(output) == SelectSeq(output.v.next_actions.v, IsMeaningfulAction)

\* ------------------------------------------------------ requests and replies

\* the concurrently handled requests
Reqs == {1, 2}

FileVal(size, type) == [t |-> "file", v |-> [size |-> size, type |-> type, name |-> "f"]]

\* a thrown JavaScript value: its class and the value itself
Thrown(cls, val) == [cls |-> cls, val |-> val, issues |-> {}]
NoError == Thrown("none", JUndef)
\* the error schema.parse throws, carrying its issue codes
ZodError(issues) == [cls |-> "ZodError", val |-> JObj([name |-> JStr(Lit("ZodError"))]), issues |-> issues]

\* the text a model call returns: absent, "", a non-JSON text, or the
\* serialization of the JSON value j
NoText == [k |-> "absent", j |-> JUndef]
EmptyText == [k |-> "empty", j |-> JUndef]
Garbage == [k |-> "garbage", j |-> JUndef]
JsonText(j) == [k |-> "json", j |-> j]

Over == 1..MaxOver

TextSamples ==
  {Empty, Lit("a"), Rep("a", MAX_INPUT_CHARS)}
    \cup {Rep("a", MAX_INPUT_CHARS + i) : i \in Over}

NotesSamples ==
  {Empty, Sp, Lit("a"), Rep("a", MAX_NOTES_CHARS)}
    \cup {Rep("a", MAX_NOTES_CHARS + i) : i \in Over}

\* an object literal holding the defined fields only
MkObj(o) == JObj([k \in {kk \in DOMAIN o : o[kk].t # "undefined"} |-> o[k]])

JsonBodyValues ==
  {JNull}
    \cup {MkObj([text |-> t, notes |-> n]) :
            t \in {JUndef, JNum(1)} \cup {JStr(x) : x \in TextSamples},
            n \in {JUndef, JNum(1)} \cup {JStr(x) : x \in NotesSamples}}

FileSamples ==
  {FileVal(0, "application/pdf"), FileVal(MAX_FILE_BYTES, "image/png")}
    \cup {FileVal(MAX_FILE_BYTES + i, "application/pdf") : i \in Over}

FormValues ==
  {[file |-> f, notes |-> n] :
     f \in {JNull, JStr(Lit("a"))} \cup FileSamples,
     n \in {JNull, FileVal(1, "text/plain")} \cup {JStr(x) : x \in NotesSamples}}

NoForm == [file |-> JNull, notes |-> JNull]

\* a request body: a JSON text, a multipart form, or bytes that are neither
Bodies ==
  {[kind |-> "bad", json |-> JUndef, form |-> NoForm]}
    \cup {[kind |-> "json", json |-> j, form |-> NoForm] : j \in JsonBodyValues}
    \cup {[kind |-> "form", json |-> JUndef, form |-> f] : f \in FormValues}

\* the Content-Type header, in segments; <<>> when the header is absent
ContentTypes ==
  {<<>>, <<"application/json">>, <<"multipart/form-data", "; boundary=x">>}

Requests == [contentType : ContentTypes, body : Bodies]

NoRequest == [contentType |-> <<>>, body |-> [kind |-> "bad", json |-> JUndef, form |-> NoForm]]

Act(a, f) == JObj([action |-> JStr(a), first_step |-> JStr(f)])

ActionSamples ==
  {Act(Lit("a"), Lit("b")), Act(Lit("b"), Lit("a")), Act(Sp, Lit("a")), Act(Lit("a"), Empty)}

ActionLists == UNION {[1..n -> ActionSamples] : n \in 0..MaxActions}

Section(h, bs) == JObj([heading |-> JStr(h), bullets |-> JArr(bs)])

MkDoc(nas) ==
  JObj([title |-> JStr(Lit("t")),
        summary |-> JStr(Lit("s")),
        sections |-> JArr(<<Section(Lit("h"), <<JStr(Lit("b")), JStr(Empty)>>)>>),
        next_actions |-> JArr(nas)])

GoodDocs == {MkDoc(nas) : nas \in ActionLists}

\* JSON values the model may return that the response schema must reject
BadDocs ==
  {JNull,
   JArr(<<>>),
   JObj([title |-> JStr(Lit("t")),
         sections |-> JArr(<<>>),
         next_actions |-> JArr(<<>>)]),
   JObj([title |-> JNum(1),
         summary |-> JStr(Lit("s")),
         sections |-> JArr(<<>>),
         next_actions |-> JArr(<<>>)]),
   JObj([title |-> JStr(Lit("t")),
         summary |-> JStr(Lit("s")),
         sections |-> JArr(<<Section(Lit("h"), <<JNum(1)>>)>>),
         next_actions |-> JArr(<<>>)]),
   JObj([title |-> JStr(Lit("t")),
         summary |-> JStr(Lit("s")),
         sections |-> JArr(<<>>),
         next_actions |-> JArr(<<JObj([action |-> JStr(Lit("a"))])>>)])}

\* a conforming document carrying keys the schema does not know
ExtraKeyDoc ==
  JObj([title |-> JStr(Lit("t")),
        summary |-> JStr(Lit("s")),
        confidence |-> JNum(1),
        sections |-> JArr(<<JObj([heading |-> JStr(Lit("h")),
                                  bullets |-> JArr(<<>>),
                                  note |-> JNull])>>),
        next_actions |-> JArr(<<JObj([action |-> JStr(Lit("a")),
                                      first_step |-> JStr(Lit("b")),
                                      owner |-> JStr(Lit("c"))])>>)])

ModelTexts ==
  {NoText, EmptyText, Garbage}
    \cup {JsonText(j) : j \in BadDocs \cup GoodDocs \cup {ExtraKeyDoc}}

\* values the provider client throws
ProviderErrors ==
  {Thrown("APIError",
          JObj([status |-> JNum(429),
                message |-> JStr(Lit("429 Rate limit reached")),
                error |-> JObj([message |-> JStr(Lit("Rate limit reached"))])])),
   Thrown("APIError",
          JObj([status |-> JNum(401),
                message |-> JStr(Sp),
                error |-> JObj([message |-> JStr(Rep(" ", 2))])])),
   Thrown("APIError",
          JObj([status |-> JNum(503),
                error |-> JObj([message |-> JStr(Sp \o Lit("Overloaded") \o Sp)])])),
   Thrown("Error", JObj([message |-> JStr(Lit("fetch failed"))])),
   Thrown("Error",
          JObj([status |-> JStr(Lit("429")),
                message |-> JStr(Lit("Too many requests") \o Lit("\n")),
                error |-> JStr(Lit("quota"))])),
   Thrown("string", JStr(Lit("boom")))}

\* the outcome of an external call
Pending == [k |-> "pending", err |-> NoError, text |-> NoText]
Returned(text) == [k |-> "ok", err |-> NoError, text |-> text]
Threw(e) == [k |-> "throw", err |-> e, text |-> NoText]

ModelReplies == {Returned(x) : x \in ModelTexts} \cup {Threw(e) : e \in ProviderErrors}
UploadReplies == {Returned(NoText)} \cup {Threw(e) : e \in ProviderErrors}

\* ------------------------------------------------------------------- state

VARIABLES
  env,              \* process environment: is OPENAI_API_KEY set
  pc,               \* per request: the await the handler is suspended at
  request,          \* per request: the HTTP request being handled
  notesForRequest,  \* per request: the handler's local of that name
  validated,        \* per request: the handler's local of that name
  calls,            \* per request: the external calls issued, in order
  resp              \* per request: the HTTP response, once produced

\* the state of the client page (MakeThisUsablePage)
VARIABLES
  inputText,        \* useState: the text area's content
  isProcessing,     \* useState
  isExtracting,     \* useState
  hasOutput,        \* useState
  output,           \* useState: the validated document, or null
  pageError,        \* useState `error`: the message shown, or null
  selectedFile,     \* useState: the File chosen, or null
  uploadedFileName, \* useState
  fetches,          \* the fetch calls of handleMakeUsable that have not settled
  extractions       \* the extractions of handleFileUpload that have not settled

serverVars == <<env, pc, request, notesForRequest, validated, calls, resp>>

clientVars ==
  <<inputText, isProcessing, isExtracting, hasOutput, output, pageError,
    selectedFile, uploadedFileName, fetches, extractions>>

vars == <<serverVars, clientVars>>

\* the page as first rendered
ClientInit ==
  /\ inputText = Empty
  /\ isProcessing = FALSE
  /\ isExtracting = FALSE
  /\ hasOutput = FALSE
  /\ output = JNull
  /\ pageError = JNull
  /\ selectedFile = JNull
  /\ uploadedFileName = JNull
  /\ fetches = <<>>
  /\ extractions = <<>>

HeaderName == "x-received-notes-length"
NoHeaders == [h \in {HeaderName} |-> JUndef]
NoResp == [status |-> 0, body |-> JUndef, headers |-> NoHeaders]

\* NextResponse.json(body, {status, headers})
Json(body, status, headers) == [status |-> status, body |-> body, headers |-> headers]
ErrorJson(message, status) == Json(JObj([error |-> JStr(message)]), status, NoHeaders)

OPENAI_TEXT_MODEL == "gpt-4o"
OPENAI_FILE_MODEL == "gpt-4o-mini"

NL == Lit("\n")

\* JSON.stringify of a string: quoted, line breaks and tabs escaped
EscapeRun(run) ==
  IF run.c = "\n" THEN Run("\\n", run.n)
  ELSE IF run.c = "\t" THEN Run("\\t", run.n)
  ELSE run

Quoted(str) == Lit("\"") \o [i \in DOMAIN str |-> EscapeRun(str[i])] \o Lit("\"")

\* the order in which the keys of a validated document were inserted
KeyOrder ==
  <<"title", "summary", "sections", "next_actions",
    "heading", "bullets", "action", "first_step">>

\* JSON.stringify(value)
RECURSIVE JSONstringify(_), StringifyItems(_), StringifyMembers(_, _)
JSONstringify(x) ==
  CASE x.t = "str" -> Quoted(x.v)
    [] x.t = "num" -> Lit(ToString(x.v))
    [] x.t = "arr" -> Lit("[") \o StringifyItems(x.v) \o Lit("]")
    [] x.t = "obj" ->
         Lit("{")
           \o StringifyMembers(x, SelectSeq(KeyOrder, LAMBDA k : k \in DOMAIN x.v))
           \o Lit("}")
    [] OTHER -> Lit("null")

StringifyItems(items) ==
  IF items = <<>> THEN <<>>
  ELSE JSONstringify(Head(items))
         \o (IF Len(items) > 1 THEN Lit(",") ELSE <<>>)
         \o StringifyItems(Tail(items))

StringifyMembers(x, keys) ==
  IF keys = <<>> THEN <<>>
  ELSE Quoted(Lit(Head(keys))) \o Lit(":") \o JSONstringify(x.v[Head(keys)])
         \o (IF Len(keys) > 1 THEN Lit(",") ELSE <<>>)
         \o StringifyMembers(x, Tail(keys))

\* notes && notes.trim().length > 0
HasNotes(notes) == notes.t = "str" /\ StrLen(notes.v) > 0 /\ StrLen(Trim(notes.v)) > 0

\* the notes block of the first-pass prompts
AdditionalNotesPart(notes) ==
  IF HasNotes(notes)
  THEN Rep("\n", 2)
         \o Lit("Additional user notes / instructions (treat as instructions, NOT as source facts):")
         \o NL \o Trim(notes.v) \o NL
  ELSE Empty

\* mutant: the file prompt does not name the output format
buildFileUserPrompt_NoMarker(notes) ==
  Lit("Analyze the attached file and produce the requested structured output.")
    \o AdditionalNotesPart(notes)

buildFileUserPrompt(notes) ==
  Lit("Analyze the attached file and produce the requested structured output as valid")
    \o Sp \o Lit("JSON") \o Lit(".")
    \o AdditionalNotesPart(notes)

buildTextUserPrompt(text, notes) ==
  Lit("Transform the following input into the required response as valid")
    \o Sp \o Lit("JSON") \o Lit(".")
    \o AdditionalNotesPart(notes)
    \o Rep("\n", 2) \o Lit("INPUT (source facts):") \o NL \o text

buildNotesRewritePrompt(originalJson, notes) ==
  LET notesPart ==
        IF HasNotes(notes)
        THEN Rep("\n", 2) \o Lit("User notes / instructions (REQUIRED constraints):")
               \o NL \o Trim(notes.v) \o NL
        ELSE Empty
  IN Lit("Rewrite the following") \o Sp \o Lit("JSON") \o Sp
       \o Lit("output so it complies with the user's notes/instructions while preserving facts.")
       \o Rep("\n", 2) \o Lit("CRITICAL:") \o NL
       \o Lit("- Do NOT add facts that are not already present in the JSON below") \o NL
       \o Lit("- Do NOT remove facts that are already present; you may rephrase them") \o NL
       \o Lit("- Keep EXACTLY the same JSON schema/keys as before (title, summary, sections[{heading,bullets}], next_actions[{action,first_step}])") \o NL
       \o Lit("- You MAY change tone, ordering, emphasis, verbosity, and phrasing to match the notes") \o NL
       \o Lit("- It is OK to use line breaks (\\n) inside strings if the notes request it (e.g., poetry)") \o NL
       \o Lit("- If the user's instructions conflict with the schema, comply by expressing the intent INSIDE the strings while keeping the schema")
       \o Rep("\n", 2) \o Lit("Return ONLY valid") \o Sp \o Lit("JSON") \o Lit(".") \o NL
       \o notesPart
       \o Rep("\n", 2) \o Lit("JSON") \o Sp \o Lit("to rewrite (source facts):") \o NL
       \o originalJson

\* (file.type || "").startsWith("image/"), over the media types sampled
IsImageType(type) == type \in {"image/png", "image/jpeg"}

\* an external call: for a model call the user prompt and the types of the
\* content parts sent with it
Call(api, pass, model, temperature, payload, prompt, content) ==
  [api |-> api, pass |-> pass, model |-> model, temperature |-> temperature,
   payload |-> payload, prompt |-> prompt, content |-> content, reply |-> Pending]

FilesCreate == Call("files.create", 0, "", "", "file", Empty, <<>>)

FirstPassFile(file, notes) ==
  Call("responses.create", 1, OPENAI_FILE_MODEL, "0.1", "file",
       buildFileUserPrompt(notes),
       <<"input_text", IF IsImageType(file.v.type) THEN "input_image" ELSE "input_file">>)

FirstPassText(text, notes) ==
  Call("responses.create", 1, OPENAI_TEXT_MODEL, "0.1", "text",
       buildTextUserPrompt(text.v, notes), <<"input_text">>)

RewritePass(doc, notes) ==
  Call("responses.create", 2, OPENAI_TEXT_MODEL, "0.4", "rewrite",
       buildNotesRewritePrompt(JSONstringify(doc), notes), <<"input_text">>)

\* mutant: a call that has settled is issued once more
SetReply_Reissue(cs, reply) ==
  Append([cs EXCEPT ![Len(cs)].reply = reply], cs[Len(cs)])

SetReply(cs, reply) == [cs EXCEPT ![Len(cs)].reply = reply]

\* mutant: the configuration check is gone
MissingApiKey_Never(e) == FALSE

\* !process.env.OPENAI_API_KEY
MissingApiKey(e) == ~e.OPENAI_API_KEY

\* contentType.includes("multipart/form-data")
\* mutant: the header must equal the media type
IsMultipart_Exact(ct) == ct = <<"multipart/form-data">>

IsMultipart(ct) == \E i \in DOMAIN ct : ct[i] = "multipart/form-data"

\* mutant: any non-null form value passes for a file
IsFileInstance_NonNull(x) == x.t # "null"

\* file instanceof File
IsFileInstance(x) == x.t = "file"

\* mutant: the size of a file is never read
FileSize_Undefined(x) == 0

\* file.size (undefined, which compares false, on a value that is no File)
FileSize(x) == IF x.t = "file" THEN x.v.size ELSE 0

\* JSON.parse(text)
JSONparse(text) == [ok |-> text.k = "json", val |-> text.j]

\* mutant: only an absent output counts as no response
IsFalsyText_OnlyAbsent(text) == text.k = "absent"

\* !rawModelText
IsFalsyText(text) == text.k \in {"absent", "empty"}

NonBlankTrim(x) == x.t = "str" /\ Trim(x.v) # Empty

\* mutant: the error's own message is preferred to the nested provider message
normalizeOpenAIError_MessageFirst(error) ==
  LET fallback == [status |-> 500,
                   message |-> Lit("Failed to analyze input. Please try again.")]
      err == error.val
      status == IF Get(err, "status").t = "num" THEN Get(err, "status").v ELSE 500
      nestedMessage ==
        IF Get(err, "error").t = "obj" THEN Get(Get(err, "error"), "message") ELSE JUndef
      message ==
        IF NonBlankTrim(Get(err, "message")) THEN Trim(Get(err, "message").v)
        ELSE IF NonBlankTrim(nestedMessage) THEN Trim(nestedMessage.v)
        ELSE fallback.message
  IN IF err.t # "obj" THEN fallback ELSE [status |-> status, message |-> message]

normalizeOpenAIError(error) ==
  LET fallback == [status |-> 500,
                   message |-> Lit("Failed to analyze input. Please try again.")]
      err == error.val
      status == IF Get(err, "status").t = "num" THEN Get(err, "status").v ELSE 500
      nestedMessage ==
        IF Get(err, "error").t = "obj" THEN Get(Get(err, "error"), "message") ELSE JUndef
      message ==
        IF NonBlankTrim(nestedMessage) THEN Trim(nestedMessage.v)
        ELSE IF NonBlankTrim(Get(err, "message")) THEN Trim(Get(err, "message").v)
        ELSE fallback.message
  IN IF err.t # "obj" THEN fallback ELSE [status |-> status, message |-> message]

\* mutant: every schema error is reported as an unprocessable request
OuterCatch_422(error) ==
  IF error.cls = "ZodError"
  THEN ErrorJson(Lit("Model returned an unexpected response shape. Please try again."), 422)
  ELSE LET normalized == normalizeOpenAIError(error)
       IN ErrorJson(normalized.message, normalized.status)

\* the handler's outer catch block
OuterCatch(error) ==
  IF error.cls = "ZodError"
  THEN ErrorJson(Lit("Model returned an unexpected response shape. Please try again."), 502)
  ELSE LET normalized == normalizeOpenAIError(error)
       IN ErrorJson(normalized.message, normalized.status)

\* the catch block around request.json() and transformRequestSchema.parse
JsonBodyCatch(error) ==
  IF error.cls = "ZodError"
  THEN LET tooBig == "too_big" \in error.issues
       IN ErrorJson(IF tooBig
                    THEN Lit("Input text is too large. Maximum is") \o Sp
                           \o toLocaleString(MAX_INPUT_CHARS) \o Sp \o Lit("characters.")
                    ELSE Lit("Invalid request format"),
                    IF tooBig THEN 413 ELSE 400)
  ELSE ErrorJson(Lit("Invalid request body"), 400)

MissingKeyResponse ==
  ErrorJson(Lit("Server is missing OPENAI_API_KEY configuration."), 500)

MissingFileResponse ==
  ErrorJson(Lit("Missing file upload (expected form field 'file')."), 400)

FileTooLargeResponse(file) ==
  ErrorJson(Lit("File is too large. Maximum is") \o Sp
              \o toLocaleString(MAX_FILE_BYTES) \o Sp \o Lit("bytes."),
            413)

\* mutant: malformed model output reported as a server error
InvalidFormatResponse_As500 ==
  ErrorJson(Lit("Model returned an invalid response format. Please try again."), 500)

InvalidFormatResponse ==
  ErrorJson(Lit("Model returned an invalid response format. Please try again."), 502)

\* mutant: the rewritten document is merged into the first one, whose
\* sections are kept
RewriteOrFallback_Merge(first, rewrittenText) ==
  LET rewrittenParsed == JSONparse(rewrittenText)
      issues == ZIssues(transformResponseSchema, rewrittenParsed.val)
  IN IF /\ ~IsFalsyText(rewrittenText)
        /\ rewrittenParsed.ok
        /\ issues = {}
     THEN JObj([ZOut(transformResponseSchema, rewrittenParsed.val).v
                  EXCEPT !.sections = first.v.sections])
     ELSE first

\* mutant: the rewritten value is only checked for its four top-level keys
RewriteOrFallback_Shallow(first, rewrittenText) ==
  LET rewrittenParsed == JSONparse(rewrittenText)
  IN IF /\ ~IsFalsyText(rewrittenText)
        /\ rewrittenParsed.ok
        /\ rewrittenParsed.val.t = "obj"
        /\ DOMAIN transformResponseSchema.shape \subseteq DOMAIN rewrittenParsed.val.v
     THEN rewrittenParsed.val
     ELSE first

\* the value of `validated` after the guarded try/catch around the rewritten
\* text: the rewritten document if the text is non-empty, parses and
\* validates, else the first-pass document
RewriteOrFallback(first, rewrittenText) ==
  LET rewrittenParsed == JSONparse(rewrittenText)
      issues == ZIssues(transformResponseSchema, rewrittenParsed.val)
  IN IF /\ ~IsFalsyText(rewrittenText)
        /\ rewrittenParsed.ok
        /\ issues = {}
     THEN ZOut(transformResponseSchema, rewrittenParsed.val)
     ELSE first

\* String((notesForRequest ?? "").length)
NotesLength(notes) == IF notes.t = "str" THEN StrLen(notes.v) ELSE 0

\* sanitize and return the document
Deliver(doc, notes) ==
  Json(Sanitize(doc), 200, [h \in {HeaderName} |-> JStr(Lit(ToString(NotesLength(notes))))])

\* mutant: the handler neither returns nor rejects
Finish_Hang(r, response) == UNCHANGED <<pc, resp>>

\* return NextResponse.json(...): the handler's promise resolves
Finish(r, response) ==
  /\ pc' = [pc EXCEPT ![r] = "done"]
  /\ resp' = [resp EXCEPT ![r] = response]

\* mutant: the locals of POST live at module level, shared by every
\* activation
Frame_Shared(r) == 1

\* the activation of POST that holds the locals (notesForRequest,
\* validated) of request r
Frame(r) == r

Init ==
  /\ env \in [OPENAI_API_KEY : BOOLEAN]
  /\ pc = [r \in Reqs |-> IF r = 1 THEN "idle" ELSE "off"]
  /\ request = [r \in Reqs |-> NoRequest]
  /\ notesForRequest = [r \in Reqs |-> JUndef]
  /\ validated = [r \in Reqs |-> JUndef]
  /\ calls = [r \in Reqs |-> <<>>]
  /\ resp = [r \in Reqs |-> NoResp]
  /\ ClientInit

\* a request arrives and the handler runs up to its first await
PostFrom(r, reqs) ==
  /\ pc[r] = "idle"
  /\ \E req \in reqs :
       /\ request' = [request EXCEPT ![r] = req]
       /\ IF MissingApiKey(env)
          THEN Finish(r, MissingKeyResponse)
          ELSE /\ pc' = [pc EXCEPT ![r] =
                           IF IsMultipart(req.contentType) THEN "formData" ELSE "json"]
               /\ UNCHANGED resp
  /\ UNCHANGED <<env, notesForRequest, validated, calls>>
  /\ UNCHANGED clientVars

\* request.formData() settles: the multipart branch up to files.create
AfterFormData(r) ==
  /\ pc[r] = "formData"
  /\ LET body == request[r].body
         file == body.form.file
         notesValue == body.form.notes
         issues == IF notesValue.t = "str"
                   THEN ZIssues(transformFileNotesSchema, JObj([notes |-> notesValue]))
                   ELSE {}
         notes == IF notesValue.t = "str"
                  THEN Get(ZOut(transformFileNotesSchema, JObj([notes |-> notesValue])), "notes")
                  ELSE JUndef
     IN IF body.kind # "form"
        THEN /\ Finish(r, OuterCatch(Thrown("TypeError",
                            JObj([message |-> JStr(Lit("Failed to parse body as FormData."))]))))
             /\ UNCHANGED <<notesForRequest, calls>>
        ELSE IF issues # {}
        THEN /\ Finish(r, OuterCatch(ZodError(issues)))
             /\ UNCHANGED <<notesForRequest, calls>>
        ELSE /\ notesForRequest' = [notesForRequest EXCEPT ![Frame(r)] = notes]
             /\ IF ~IsFileInstance(file)
                THEN Finish(r, MissingFileResponse) /\ UNCHANGED calls
                ELSE IF FileSize(file) > MAX_FILE_BYTES
                THEN Finish(r, FileTooLargeResponse(file)) /\ UNCHANGED calls
                ELSE /\ calls' = [calls EXCEPT ![r] = Append(@, FilesCreate)]
                     /\ pc' = [pc EXCEPT ![r] = "upload"]
                     /\ UNCHANGED resp
  /\ UNCHANGED <<env, request, validated>>
  /\ UNCHANGED clientVars

\* openai.files.create settles: on success the first pass is issued
AfterUploadFrom(r, replies) ==
  /\ pc[r] = "upload"
  /\ \E reply \in replies :
       IF reply.k = "throw"
       THEN /\ calls' = [calls EXCEPT ![r] = SetReply(@, reply)]
            /\ Finish(r, OuterCatch(reply.err))
       ELSE /\ calls' = [calls EXCEPT ![r] = Append(SetReply(@, reply),
                                    FirstPassFile(request[r].body.form.file, notesForRequest[Frame(r)]))]
            /\ pc' = [pc EXCEPT ![r] = "pass1"]
            /\ UNCHANGED resp
  /\ UNCHANGED <<env, request, notesForRequest, validated>>
  /\ UNCHANGED clientVars

\* request.json() settles: the JSON branch up to the first pass
AfterJson(r) ==
  /\ pc[r] = "json"
  /\ LET body == request[r].body
         issues == ZIssues(transformRequestSchema, body.json)
         out == ZOut(transformRequestSchema, body.json)
     IN IF body.kind # "json"
        THEN /\ Finish(r, JsonBodyCatch(Thrown("SyntaxError",
                            JObj([message |-> JStr(Lit("Unexpected token"))]))))
             /\ UNCHANGED <<notesForRequest, calls>>
        ELSE IF issues # {}
        THEN /\ Finish(r, JsonBodyCatch(ZodError(issues)))
             /\ UNCHANGED <<notesForRequest, calls>>
        ELSE /\ notesForRequest' = [notesForRequest EXCEPT ![Frame(r)] = Get(out, "notes")]
             /\ calls' = [calls EXCEPT ![r] = Append(@, FirstPassText(Get(out, "text"), Get(out, "notes")))]
             /\ pc' = [pc EXCEPT ![r] = "pass1"]
             /\ UNCHANGED resp
  /\ UNCHANGED <<env, request, validated>>
  /\ UNCHANGED clientVars

\* the first responses.create settles: parse, validate, then either issue
\* the rewrite pass or sanitize and deliver
AfterFirstPassFrom(r, replies) ==
  /\ pc[r] = "pass1"
  /\ \E reply \in replies :
       LET rawModelText == reply.text
           parsed == JSONparse(rawModelText)
           issues == ZIssues(transformResponseSchema, parsed.val)
           doc == ZOut(transformResponseSchema, parsed.val)
       IN IF reply.k = "throw"
          THEN /\ calls' = [calls EXCEPT ![r] = SetReply(@, reply)]
               /\ Finish(r, OuterCatch(reply.err))
               /\ UNCHANGED validated
          ELSE IF IsFalsyText(rawModelText)
          THEN /\ calls' = [calls EXCEPT ![r] = SetReply(@, reply)]
               /\ Finish(r, OuterCatch(Thrown("Error",
                              JObj([message |-> JStr(Lit("No response from OpenAI"))]))))
               /\ UNCHANGED validated
          ELSE IF ~parsed.ok
          THEN /\ calls' = [calls EXCEPT ![r] = SetReply(@, reply)]
               /\ Finish(r, InvalidFormatResponse)
               /\ UNCHANGED validated
          ELSE IF issues # {}
          THEN /\ calls' = [calls EXCEPT ![r] = SetReply(@, reply)]
               /\ Finish(r, OuterCatch(ZodError(issues)))
               /\ UNCHANGED validated
          ELSE /\ validated' = [validated EXCEPT ![Frame(r)] = doc]
               /\ IF shouldApplyNotesRewritePass(notesForRequest[Frame(r)])
                  THEN /\ calls' = [calls EXCEPT ![r] = Append(SetReply(@, reply),
                                                RewritePass(doc, notesForRequest[Frame(r)]))]
                       /\ pc' = [pc EXCEPT ![r] = "pass2"]
                       /\ UNCHANGED resp
                  ELSE /\ calls' = [calls EXCEPT ![r] = SetReply(@, reply)]
                       /\ Finish(r, Deliver(doc, notesForRequest[Frame(r)]))
  /\ UNCHANGED <<env, request, notesForRequest>>
  /\ UNCHANGED clientVars

\* the rewrite responses.create settles: keep the rewritten document if it
\* parses and validates, then sanitize and deliver
AfterRewritePassFrom(r, replies) ==
  /\ pc[r] = "pass2"
  /\ \E reply \in replies :
       LET final == RewriteOrFallback(validated[Frame(r)], reply.text)
       IN /\ calls' = [calls EXCEPT ![r] = SetReply(@, reply)]
          /\ IF reply.k = "throw"
             THEN Finish(r, OuterCatch(reply.err)) /\ UNCHANGED validated
             ELSE /\ validated' = [validated EXCEPT ![Frame(r)] = final]
                  /\ Finish(r, Deliver(final, notesForRequest[Frame(r)]))
  /\ UNCHANGED <<env, request, notesForRequest>>
  /\ UNCHANGED clientVars

Post(r) == PostFrom(r, Requests)
AfterUpload(r) == AfterUploadFrom(r, UploadReplies)
AfterFirstPass(r) == AfterFirstPassFrom(r, ModelReplies)
AfterRewritePass(r) == AfterRewritePassFrom(r, ModelReplies)

Next ==
  \E r \in Reqs :
    \/ Post(r)
    \/ AfterFormData(r)
    \/ AfterUpload(r)
    \/ AfterJson(r)
    \/ AfterFirstPass(r)
    \/ AfterRewritePass(r)

Spec == Init /\ [][Next]_vars

\* two requests handled at the same time, over a few requests and replies of
\* each kind
ConcurrentRequests ==
  {[contentType |-> <<"application/json">>,
    body |-> [kind |-> "json", json |-> MkObj([text |-> t, notes |-> n]), form |-> NoForm]] :
     t \in {JStr(Lit("a")), JStr(Empty)},
     n \in {JUndef, JStr(Lit("a")), JStr(Sp)}}
    \cup {[contentType |-> <<"multipart/form-data", "; boundary=x">>,
           body |-> [kind |-> "form", json |-> JUndef, form |-> [file |-> f, notes |-> n]]] :
            f \in {JNull, FileVal(1, "image/png")},
            n \in {JNull, JStr(Lit("a")), JStr(Rep("a", MAX_NOTES_CHARS))}}

ConcurrentErrors == {e \in ProviderErrors : e.cls = "APIError" /\ Get(e.val, "status") = JNum(429)}

ConcurrentModelReplies ==
  {Returned(JsonText(MkDoc(<<>>))),
   Returned(JsonText(MkDoc(<<Act(Lit("a"), Lit("b")), Act(Sp, Lit("a"))>>))),
   Returned(Garbage)}
    \cup {Threw(e) : e \in ConcurrentErrors}

ConcurrentUploadReplies == {Returned(NoText)} \cup {Threw(e) : e \in ConcurrentErrors}

PostConcurrent(r) == PostFrom(r, ConcurrentRequests)
AfterUploadConcurrent(r) == AfterUploadFrom(r, ConcurrentUploadReplies)
AfterFirstPassConcurrent(r) == AfterFirstPassFrom(r, ConcurrentModelReplies)
AfterRewritePassConcurrent(r) == AfterRewritePassFrom(r, ConcurrentModelReplies)

InitConcurrent ==
  /\ env \in [OPENAI_API_KEY : BOOLEAN]
  /\ pc = [r \in Reqs |-> "idle"]
  /\ request = [r \in Reqs |-> NoRequest]
  /\ notesForRequest = [r \in Reqs |-> JUndef]
  /\ validated = [r \in Reqs |-> JUndef]
  /\ calls = [r \in Reqs |-> <<>>]
  /\ resp = [r \in Reqs |-> NoResp]
  /\ ClientInit

NextConcurrent ==
  \E r \in Reqs :
    \/ PostConcurrent(r)
    \/ AfterFormData(r)
    \/ AfterUploadConcurrent(r)
    \/ AfterJson(r)
    \/ AfterFirstPassConcurrent(r)
    \/ AfterRewritePassConcurrent(r)

SpecConcurrent == InitConcurrent /\ [][NextConcurrent]_vars

\* every awaited promise settles: each continuation that is enabled is
\* eventually run; the arrival of a request is not forced
FairSpec ==
  /\ Spec
  /\ \A r \in Reqs :
       /\ WF_vars(AfterFormData(r))
       /\ WF_vars(AfterUpload(r))
       /\ WF_vars(AfterJson(r))
       /\ WF_vars(AfterFirstPass(r))
       /\ WF_vars(AfterRewritePass(r))

\* ------------------------------------------------------ vocabulary of claims

\* the reply recorded for the call of pass p (0: upload), Pending if none
PassReply(r, p) ==
  IF \E i \in DOMAIN calls[r] : calls[r][i].pass = p
  THEN calls[r][CHOOSE i \in DOMAIN calls[r] : calls[r][i].pass = p].reply
  ELSE Pending

Issued(r, p) == \E i \in DOMAIN calls[r] : calls[r][i].pass = p
ModelCallCount(r) == Cardinality({i \in DOMAIN calls[r] : calls[r][i].api = "responses.create"})

Responded(r) == resp[r].status # 0

IsErrorBody(b) == b.t = "obj" /\ DOMAIN b.v = {"error"} /\ b.v.error.t = "str"

\* the request took the JSON branch and its body parsed as JSON
InJsonBranch(r) ==
  /\ env.OPENAI_API_KEY
  /\ pc[r] \notin {"idle", "off", "json"}
  /\ ~IsMultipart(request[r].contentType)
  /\ request[r].body.kind = "json"

\* the request took the multipart branch and its form was read
InFormBranch(r) ==
  /\ env.OPENAI_API_KEY
  /\ pc[r] \notin {"idle", "off", "formData"}
  /\ IsMultipart(request[r].contentType)
  /\ request[r].body.kind = "form"

BodyText(r) == Get(request[r].body.json, "text")
BodyNotes(r) == Get(request[r].body.json, "notes")
FormFile(r) == request[r].body.form.file
FormNotes(r) == request[r].body.form.notes

\* a string with at least one character that is not whitespace
HasVisible(s) == \E i \in DOMAIN s : s[i].n > 0 /\ s[i].c \notin {" ", "\n", "\t"}

\* the message names the number n (grouped or plain digits)
Mentions(message, n) ==
  \E i \in DOMAIN message : message[i].c \in {GroupDigits(n), ToString(n)}

\* ------------------------------------------------------------------- claims

\* C1: a JSON request whose body is an object with a string text and no
\* notes is accepted (the first model call is issued) exactly when
\* 1 <= length(text) <= MAX_INPUT_CHARS; length 0 is answered 400 and
\* length > MAX_INPUT_CHARS is answered 413, both without any external call.
C1_TextLengthGate ==
  \A r \in Reqs :
    (/\ InJsonBranch(r)
     /\ request[r].body.json.t = "obj"
     /\ BodyText(r).t = "str"
     /\ BodyNotes(r).t = "undefined")
    => LET n == StrLen(BodyText(r).v)
       IN /\ (1 <= n /\ n <= MAX_INPUT_CHARS)
               <=> (Issued(r, 1) /\ calls[r][1].payload = "text")
          /\ n = 0 => (resp[r].status = 400 /\ calls[r] = <<>>)
          /\ n > MAX_INPUT_CHARS => (resp[r].status = 413 /\ calls[r] = <<>>)

\* C1 witness: a text of exactly MAX_INPUT_CHARS characters reached the
\* first model call
C1_Witness ==
  \E r \in Reqs :
    /\ InJsonBranch(r)
    /\ request[r].body.json.t = "obj"
    /\ BodyText(r).t = "str"
    /\ BodyNotes(r).t = "undefined"
    /\ StrLen(BodyText(r).v) = MAX_INPUT_CHARS
    /\ pc[r] = "pass1"
    /\ Issued(r, 1)

\* C2 (as claimed): for a multipart request carrying a file (notes absent or
\* valid), a file of at most MAX_FILE_BYTES proceeds to the upload, and a
\* larger one is answered 413 with a message that reports both the byte
\* limit and the actual size of the file.
C2_FileSizeReported ==
  \A r \in Reqs :
    (/\ InFormBranch(r)
     /\ FormFile(r).t = "file"
     /\ (FormNotes(r).t = "str" => StrLen(FormNotes(r).v) <= MAX_NOTES_CHARS))
    => /\ FormFile(r).v.size <= MAX_FILE_BYTES => Issued(r, 0)
       /\ FormFile(r).v.size > MAX_FILE_BYTES =>
            /\ resp[r].status = 413
            /\ IsErrorBody(resp[r].body)
            /\ Mentions(resp[r].body.v.error.v, MAX_FILE_BYTES)
            /\ Mentions(resp[r].body.v.error.v, FormFile(r).v.size)

\* C3 (as claimed): in the JSON branch 413 is answered exactly when text is
\* a string longer than MAX_INPUT_CHARS; every other violation of the
\* request shape is answered 400.
C3_Only413ForLongText ==
  \A r \in Reqs :
    (InJsonBranch(r) /\ ~Issued(r, 1))
    => LET tooLong == BodyText(r).t = "str" /\ StrLen(BodyText(r).v) > MAX_INPUT_CHARS
       IN /\ resp[r].status = 413 <=> tooLong
          /\ ~tooLong => resp[r].status = 400

\* C4 (as claimed): a multipart request whose notes field is a string longer
\* than 10,000 characters is answered 400 and no external call is made.
C4_LongFormNotesIs400 ==
  \A r \in Reqs :
    (/\ InFormBranch(r)
     /\ FormNotes(r).t = "str"
     /\ StrLen(FormNotes(r).v) > MAX_NOTES_CHARS)
    => (resp[r].status = 400 /\ calls[r] = <<>>)

\* C5: a multipart request with valid or absent notes whose file field is
\* absent or is not a binary attachment is answered 400 (missing file), and
\* neither an upload nor a model call is made.
C5_MissingFile ==
  \A r \in Reqs :
    (/\ InFormBranch(r)
     /\ (FormNotes(r).t = "str" => StrLen(FormNotes(r).v) <= MAX_NOTES_CHARS)
     /\ FormFile(r).t # "file")
    => /\ resp[r].status = 400
       /\ IsErrorBody(resp[r].body)
       /\ HasVisible(resp[r].body.v.error.v)
       /\ calls[r] = <<>>
       /\ pc[r] = "done"

\* C5 witness: a form whose file field holds a plain string, with valid
\* notes, has been answered
C5_Witness ==
  \E r \in Reqs :
    /\ InFormBranch(r)
    /\ FormNotes(r).t = "str"
    /\ StrLen(FormNotes(r).v) = MAX_NOTES_CHARS
    /\ FormFile(r).t = "str"
    /\ Responded(r)

\* the TransformResponse shape, stated directly on a JSON value
IsJsonString(x) == x.t = "str"

IsSectionShape(x) ==
  /\ x.t = "obj"
  /\ {"heading", "bullets"} \subseteq DOMAIN x.v
  /\ IsJsonString(x.v.heading)
  /\ x.v.bullets.t = "arr"
  /\ \A i \in DOMAIN x.v.bullets.v : IsJsonString(x.v.bullets.v[i])

IsActionShape(x) ==
  /\ x.t = "obj"
  /\ {"action", "first_step"} \subseteq DOMAIN x.v
  /\ IsJsonString(x.v.action)
  /\ IsJsonString(x.v.first_step)

IsTransformResponse(x) ==
  /\ x.t = "obj"
  /\ {"title", "summary", "sections", "next_actions"} \subseteq DOMAIN x.v
  /\ IsJsonString(x.v.title)
  /\ IsJsonString(x.v.summary)
  /\ x.v.sections.t = "arr"
  /\ \A i \in DOMAIN x.v.sections.v : IsSectionShape(x.v.sections.v[i])
  /\ x.v.next_actions.t = "arr"
  /\ \A i \in DOMAIN x.v.next_actions.v : IsActionShape(x.v.next_actions.v[i])

\* the reply of pass p is a returned text that is JSON
ReturnedJson(r, p) == PassReply(r, p).k = "ok" /\ PassReply(r, p).text.k = "json"

\* the first pass returned a conforming document
FirstPassValidated(r) ==
  ReturnedJson(r, 1) /\ IsTransformResponse(PassReply(r, 1).text.j)

\* an entry of next_actions whose action and first_step both show something
IsMeaningful(a) == HasVisible(a.v.action.v) /\ HasVisible(a.v.first_step.v)

\* out is the subsequence of in made of its meaningful entries, in order
IsMeaningfulSubsequence(out, in) ==
  LET keep == {i \in DOMAIN in : IsMeaningful(in[i])}
  IN /\ Len(out) = Cardinality(keep)
     /\ \E f \in [DOMAIN out -> keep] :
          /\ \A i, j \in DOMAIN out : i < j => f[i] < f[j]
          /\ \A i \in DOMAIN out : out[i] = in[f[i]]

\* body is doc with the blank next_actions entries removed and nothing else
\* changed
IsSanitizedFrom(body, doc) ==
  /\ body.t = "obj"
  /\ DOMAIN body.v = DOMAIN doc.v
  /\ \A k \in DOMAIN doc.v \ {"next_actions"} : body.v[k] = doc.v[k]
  /\ body.v.next_actions.t = "arr"
  /\ IsMeaningfulSubsequence(body.v.next_actions.v, doc.v.next_actions.v)

\* the four schema fields of a conforming JSON value, nested objects reduced
\* to their schema fields
SchemaFieldsOf(x) ==
  JObj([title |-> x.v.title,
        summary |-> x.v.summary,
        sections |-> JArr([i \in DOMAIN x.v.sections.v |->
                             JObj([heading |-> x.v.sections.v[i].v.heading,
                                   bullets |-> x.v.sections.v[i].v.bullets])]),
        next_actions |-> JArr([i \in DOMAIN x.v.next_actions.v |->
                                 JObj([action |-> x.v.next_actions.v[i].v.action,
                                       first_step |-> x.v.next_actions.v[i].v.first_step])])])

NotesNonBlank(r) == notesForRequest[r].t = "str" /\ HasVisible(notesForRequest[r].v)

\* C6: when the first-pass output parses as JSON but does not match the
\* TransformResponse shape, the request is answered 502 with an error body,
\* never 200, and the rewrite pass is never issued.
C6_SchemaMismatchIs502 ==
  \A r \in Reqs :
    (ReturnedJson(r, 1) /\ ~IsTransformResponse(PassReply(r, 1).text.j))
    => /\ pc[r] = "done"
       /\ resp[r].status = 502
       /\ IsErrorBody(resp[r].body)
       /\ ~Issued(r, 2)

\* C6 witness: the first pass returned an object without `summary` and the
\* request has been answered
C6_Witness ==
  \E r \in Reqs :
    /\ ReturnedJson(r, 1)
    /\ PassReply(r, 1).text.j.t = "obj"
    /\ "title" \in DOMAIN PassReply(r, 1).text.j.v
    /\ "summary" \notin DOMAIN PassReply(r, 1).text.j.v
    /\ Responded(r)

\* C7: when the first-pass output is a non-empty string that is not JSON,
\* the request is answered 502 with an error body and no further model call
\* is made.
C7_MalformedOutputIs502 ==
  \A r \in Reqs :
    (PassReply(r, 1).k = "ok" /\ PassReply(r, 1).text.k = "garbage")
    => /\ pc[r] = "done"
       /\ resp[r].status = 502
       /\ IsErrorBody(resp[r].body)
       /\ ModelCallCount(r) = 1

\* C7 witness: a non-JSON first-pass text, for a request that carried
\* non-blank notes, has been answered
C7_Witness ==
  \E r \in Reqs :
    /\ PassReply(r, 1).k = "ok"
    /\ PassReply(r, 1).text.k = "garbage"
    /\ NotesNonBlank(r)
    /\ Responded(r)

\* the rewrite pass returned, but its output is empty, is not JSON or does
\* not match the shape
RewriteOutputUnusable(r) ==
  /\ PassReply(r, 2).k = "ok"
  /\ \/ PassReply(r, 2).text.k \in {"absent", "empty", "garbage"}
     \/ (PassReply(r, 2).text.k = "json" /\ ~IsTransformResponse(PassReply(r, 2).text.j))

\* C8: with non-blank notes and a validated first pass, a rewrite pass that
\* returns empty, non-JSON or non-conforming output is answered 200 with the
\* sanitized first-pass document.
C8_RewriteOutputFallback ==
  \A r \in Reqs :
    (NotesNonBlank(r) /\ FirstPassValidated(r) /\ RewriteOutputUnusable(r))
    => /\ resp[r].status = 200
       /\ IsSanitizedFrom(resp[r].body, SchemaFieldsOf(PassReply(r, 1).text.j))

\* C8 witness: the rewrite pass returned a non-conforming JSON object after a
\* first pass whose document holds a blank and a meaningful next action
C8_Witness ==
  \E r \in Reqs :
    /\ NotesNonBlank(r)
    /\ FirstPassValidated(r)
    /\ PassReply(r, 2).k = "ok"
    /\ PassReply(r, 2).text.k = "json"
    /\ PassReply(r, 2).text.j.t = "obj"
    /\ ~IsTransformResponse(PassReply(r, 2).text.j)
    /\ \E i, j \in DOMAIN PassReply(r, 1).text.j.v.next_actions.v :
         /\ IsMeaningful(PassReply(r, 1).text.j.v.next_actions.v[i])
         /\ ~IsMeaningful(PassReply(r, 1).text.j.v.next_actions.v[j])
    /\ Responded(r)

\* C9 (as claimed): with non-blank notes and a validated first pass, a
\* rewrite pass that fails in any way, the provider call itself throwing
\* included, is answered 200 with the sanitized first-pass document.
C9_RewriteFailureNeverSurfaces ==
  \A r \in Reqs :
    (/\ NotesNonBlank(r)
     /\ FirstPassValidated(r)
     /\ (PassReply(r, 2).k = "throw" \/ RewriteOutputUnusable(r)))
    => /\ resp[r].status = 200
       /\ ~IsErrorBody(resp[r].body)
       /\ IsSanitizedFrom(resp[r].body, SchemaFieldsOf(PassReply(r, 1).text.j))

\* C10: in every 200 response each next_actions entry has a non-blank action
\* and a non-blank first_step, and the delivered list is the subsequence of
\* the validated next_actions that have both, in their original order.
C10_DeliveredActionsMeaningful ==
  \A r \in Reqs :
    resp[r].status = 200
    => /\ resp[r].body.v.next_actions.t = "arr"
       /\ \A i \in DOMAIN resp[r].body.v.next_actions.v :
            IsMeaningful(resp[r].body.v.next_actions.v[i])
       /\ IsMeaningfulSubsequence(resp[r].body.v.next_actions.v,
                                  validated[r].v.next_actions.v)

\* C10 witness: a 200 response taken from the rewrite pass whose validated
\* document held a blank entry between two meaningful ones, or before one
C10_Witness ==
  \E r \in Reqs :
    /\ resp[r].status = 200
    /\ Issued(r, 2)
    /\ FirstPassValidated(r)
    /\ ReturnedJson(r, 2)
    /\ IsTransformResponse(PassReply(r, 2).text.j)
    /\ validated[r] = SchemaFieldsOf(PassReply(r, 2).text.j)
    /\ validated[r] # SchemaFieldsOf(PassReply(r, 1).text.j)
    /\ Len(validated[r].v.next_actions.v) >= 2
    /\ ~IsMeaningful(validated[r].v.next_actions.v[1])
    /\ IsMeaningful(validated[r].v.next_actions.v[2])
    /\ Len(resp[r].body.v.next_actions.v) >= 1

\* C11: sanitization is idempotent: for every validated document d,
\* sanitize(sanitize(d)) = sanitize(d); a delivered (sanitized) document is
\* left as it is by the sanitizer and by the client's
\* getMeaningfulNextActions filter.
C11_SanitizeIdempotent ==
  \A r \in Reqs :
    /\ validated[r].t = "obj"
         => Sanitize(Sanitize(validated[r])) = Sanitize(validated[r])
    /\ resp[r].status = 200
         => /\ Sanitize(resp[r].body) = resp[r].body
            /\ getMeaningfulNextActions(resp[r].body) = resp[r].body.v.next_actions.v

\* C11 witness: a delivered document whose validated source held two blank
\* entries
C11_Witness ==
  \E r \in Reqs :
    /\ resp[r].status = 200
    /\ Len(validated[r].v.next_actions.v) >= 2
    /\ \A i \in 1..2 : ~IsMeaningful(validated[r].v.next_actions.v[i])
    /\ Len(resp[r].body.v.next_actions.v) = Len(validated[r].v.next_actions.v) - 2

\* the fixed statuses the handler itself answers with
DocumentedStatuses == {200, 400, 413, 500, 502}

\* the value an external call of the request threw, if one did
ThrownByCall(r) ==
  {calls[r][i].reply.err : i \in {j \in DOMAIN calls[r] : calls[r][j].reply.k = "throw"}}

\* the numeric status a thrown value carries, if any
CarriedStatuses(e) ==
  IF e.val.t = "obj" /\ "status" \in DOMAIN e.val.v /\ e.val.v.status.t = "num"
  THEN {e.val.v.status.v}
  ELSE {}

\* C12 (as claimed): every response has a status in {200, 400, 413, 500, 502}.
C12_StatusInDocumentedSet ==
  \A r \in Reqs : Responded(r) => resp[r].status \in DocumentedStatuses

\* C12 (amended): every response has a status in {200, 400, 413, 500, 502},
\* or the numeric status carried by the error an external call of the
\* request threw.
C12_StatusDocumentedOrUpstream ==
  \A r \in Reqs :
    Responded(r)
    => \/ resp[r].status \in DocumentedStatuses
       \/ \E e \in ThrownByCall(r) : resp[r].status \in CarriedStatuses(e)

\* C12 witness: a provider error carrying status 429 has been answered with
\* status 429
C12_Witness ==
  \E r \in Reqs :
    /\ resp[r].status = 429
    /\ \E e \in ThrownByCall(r) : 429 \in CarriedStatuses(e)

\* the string s is the string t without its leading and trailing whitespace
IsTrimOf(s, t) ==
  /\ HasVisible(s)
  /\ s[1].c \notin {" ", "\n", "\t"}
  /\ s[Len(s)].c \notin {" ", "\n", "\t"}
  /\ \E i, j \in DOMAIN t :
       /\ SubSeq(t, i, j) = s
       /\ \A k \in DOMAIN t : (k < i \/ k > j) => t[k].c \in {" ", "\n", "\t"}

\* the strings a thrown value offers as its message, in order of preference
MessageCandidates(e) ==
  IF e.val.t # "obj" THEN <<>>
  ELSE (IF /\ "error" \in DOMAIN e.val.v
           /\ e.val.v.error.t = "obj"
           /\ "message" \in DOMAIN e.val.v.error.v
           /\ e.val.v.error.v.message.t = "str"
           /\ HasVisible(e.val.v.error.v.message.v)
        THEN <<e.val.v.error.v.message.v>> ELSE <<>>)
       \o (IF /\ "message" \in DOMAIN e.val.v
              /\ e.val.v.message.t = "str"
              /\ HasVisible(e.val.v.message.v)
           THEN <<e.val.v.message.v>> ELSE <<>>)

\* C13: when an external call throws a value that is not a schema error, the
\* response status is the value's `status` if that is a number and 500
\* otherwise (also when the value is no object), and the message is the
\* first non-blank of the nested provider error.message, the value's
\* message and the fixed fallback text, without surrounding whitespace.
C13_NormalizedUpstreamError ==
  \A r \in Reqs : \A e \in ThrownByCall(r) :
    /\ pc[r] = "done"
    /\ IsErrorBody(resp[r].body)
    /\ resp[r].status = (IF CarriedStatuses(e) = {} THEN 500
                         ELSE CHOOSE n \in CarriedStatuses(e) : TRUE)
    /\ IF MessageCandidates(e) = <<>>
       THEN resp[r].body.v.error.v = Lit("Failed to analyze input. Please try again.")
       ELSE IsTrimOf(resp[r].body.v.error.v, MessageCandidates(e)[1])

\* C13 witness: a thrown object with a numeric status, a nested message and a
\* different message of its own has been answered
C13_Witness ==
  \E r \in Reqs : \E e \in ThrownByCall(r) :
    /\ CarriedStatuses(e) # {}
    /\ Len(MessageCandidates(e)) = 2
    /\ MessageCandidates(e)[1] # MessageCandidates(e)[2]
    /\ Responded(r)

\* C14: when OPENAI_API_KEY is missing, every request, whatever its branch
\* and validity, is answered 500 with a configuration message; no request
\* body is read and no external call is made.
C14_MissingKeyIs500 ==
  ~env.OPENAI_API_KEY
  => \A r \in Reqs :
       /\ pc[r] \in {"off", "idle", "done"}
       /\ calls[r] = <<>>
       /\ pc[r] = "done"
            => /\ resp[r].status = 500
               /\ IsErrorBody(resp[r].body)
               /\ \E i \in DOMAIN resp[r].body.v.error.v :
                    resp[r].body.v.error.v[i].c
                      = "Server is missing OPENAI_API_KEY configuration."

\* C14 witness: without the key, a well-formed multipart request with a
\* file of acceptable size has been answered
C14_Witness ==
  \E r \in Reqs :
    /\ ~env.OPENAI_API_KEY
    /\ Responded(r)
    /\ IsMultipart(request[r].contentType)
    /\ request[r].body.kind = "form"
    /\ FormFile(r).t = "file"
    /\ FormFile(r).v.size <= MAX_FILE_BYTES

\* a document with exactly the keys of the TransformResponse schema, at
\* every level, and string leaves
HasExactlySchemaKeys(b) ==
  /\ b.t = "obj"
  /\ DOMAIN b.v = {"title", "summary", "sections", "next_actions"}
  /\ b.v.title.t = "str"
  /\ b.v.summary.t = "str"
  /\ b.v.sections.t = "arr"
  /\ \A i \in DOMAIN b.v.sections.v :
       LET sec == b.v.sections.v[i]
       IN /\ sec.t = "obj"
          /\ DOMAIN sec.v = {"heading", "bullets"}
          /\ sec.v.heading.t = "str"
          /\ sec.v.bullets.t = "arr"
          /\ \A j \in DOMAIN sec.v.bullets.v : sec.v.bullets.v[j].t = "str"
  /\ b.v.next_actions.t = "arr"
  /\ \A i \in DOMAIN b.v.next_actions.v :
       LET a == b.v.next_actions.v[i]
       IN /\ a.t = "obj"
          /\ DOMAIN a.v = {"action", "first_step"}
          /\ a.v.action.t = "str"
          /\ a.v.first_step.t = "str"

\* C15: every 200 response body conforms to the TransformResponse schema and
\* holds exactly the keys title, summary, sections (heading, bullets) and
\* next_actions (action, first_step); keys the model returned beyond the
\* schema never appear in it.
C15_BodyHasExactlySchemaKeys ==
  \A r \in Reqs : resp[r].status = 200 => HasExactlySchemaKeys(resp[r].body)

\* C15 witness: a model reply carrying unknown keys at the top level, in a
\* section and in an action has been delivered
C15_Witness ==
  \E r \in Reqs :
    /\ resp[r].status = 200
    /\ \E p \in {1, 2} :
         /\ ReturnedJson(r, p)
         /\ IsTransformResponse(PassReply(r, p).text.j)
         /\ "confidence" \in DOMAIN PassReply(r, p).text.j.v
         /\ validated[r] = SchemaFieldsOf(PassReply(r, p).text.j)

\* the notes the request supplied: the JSON body's notes, or the form's
\* notes field when it is a string
SuppliedNotes(r) ==
  IF IsMultipart(request[r].contentType)
  THEN (IF FormNotes(r).t = "str" THEN FormNotes(r) ELSE JUndef)
  ELSE BodyNotes(r)

\* C16 (as claimed): once the first pass is schema-validated, the rewrite
\* call is issued if and only if notes were supplied, whitespace-only notes
\* included; one generation call without notes, two with.
C16_RewriteIffNotesSupplied ==
  \A r \in Reqs :
    FirstPassValidated(r)
    => /\ Issued(r, 2) <=> SuppliedNotes(r).t = "str"
       /\ ModelCallCount(r) = (IF SuppliedNotes(r).t = "str" THEN 2 ELSE 1)

\* C16 (amended): once the first pass is schema-validated, the rewrite call
\* is issued if and only if the supplied notes hold at least one character
\* that is not whitespace; exactly two generation calls are made in that
\* case and exactly one otherwise (notes absent, empty or whitespace-only).
C16_RewriteIffNotesNonBlank ==
  \A r \in Reqs :
    FirstPassValidated(r)
    => LET nonBlank == SuppliedNotes(r).t = "str" /\ HasVisible(SuppliedNotes(r).v)
       IN /\ Issued(r, 2) <=> nonBlank
          /\ ModelCallCount(r) = (IF nonBlank THEN 2 ELSE 1)

\* C16 witness: whitespace-only notes were supplied and the validated first
\* pass was delivered after a single generation call
C16_Witness ==
  \E r \in Reqs :
    /\ FirstPassValidated(r)
    /\ SuppliedNotes(r).t = "str"
    /\ StrLen(SuppliedNotes(r).v) > 0
    /\ ~HasVisible(SuppliedNotes(r).v)
    /\ resp[r].status = 200
    /\ ModelCallCount(r) = 1

\* the prompt holds the literal marker that switches structured output on
HasJsonMarker(prompt) == \E i \in DOMAIN prompt : prompt[i].c = "JSON" /\ prompt[i].n > 0

\* notes values of every kind: absent, empty, blank, non-blank
AnyNotes == {JUndef} \cup {JStr(x) : x \in NotesSamples}

\* C17: for every text and every notes value (absent, blank or non-blank),
\* each user instruction sent in structured-output mode (the text prompt,
\* the file prompt and the restyle prompt) contains the literal marker
\* "JSON".
C17_PromptsCarryJsonMarker ==
  /\ \A r \in Reqs : \A i \in DOMAIN calls[r] :
       calls[r][i].api = "responses.create" => HasJsonMarker(calls[r][i].prompt)
  /\ \A n \in AnyNotes :
       /\ HasJsonMarker(buildFileUserPrompt(n))
       /\ \A r \in Reqs :
            /\ BodyText(r).t = "str" => HasJsonMarker(buildTextUserPrompt(BodyText(r).v, n))
            /\ validated[r].t = "obj"
                 => HasJsonMarker(buildNotesRewritePrompt(JSONstringify(validated[r]), n))

\* C17 witness: a file prompt with a notes block and a restyle prompt have
\* both been sent for one request
C17_Witness ==
  \E r \in Reqs :
    /\ \E i \in DOMAIN calls[r] : calls[r][i].payload = "rewrite"
    /\ \E i \in DOMAIN calls[r] :
         /\ calls[r][i].payload = "file"
         /\ calls[r][i].api = "responses.create"
         /\ Len(calls[r][i].prompt) > 4

\* the Content-Type header names the multipart media type somewhere
HeaderHasMultipart(r) ==
  "multipart/form-data" \in {request[r].contentType[i] : i \in DOMAIN request[r].contentType}

\* a model call carries the request's text, or a file part
CarriesText(c) == \E i \in DOMAIN c.prompt : c.prompt[i].c = "INPUT (source facts):"
CarriesFile(c) == \E i \in DOMAIN c.content : c.content[i] \in {"input_file", "input_image"}

UploadCalls(r) == {i \in DOMAIN calls[r] : calls[r][i].api = "files.create"}
FirstPassCalls(r) == {i \in DOMAIN calls[r] : calls[r][i].pass = 1}

\* C18: each request is handled by exactly one branch: the multipart branch
\* if and only if the Content-Type header contains "multipart/form-data",
\* otherwise (an absent header included) the JSON branch; the first-pass
\* model call uses either the text payload or the uploaded file, never both,
\* and a file is uploaded to the provider only in the multipart branch.
C18_OneBranchPerRequest ==
  \A r \in Reqs :
    /\ pc[r] \in {"formData", "upload"} => HeaderHasMultipart(r)
    /\ pc[r] = "json" => ~HeaderHasMultipart(r)
    /\ UploadCalls(r) # {} => HeaderHasMultipart(r)
    /\ Cardinality(FirstPassCalls(r)) <= 1
    /\ \A i \in FirstPassCalls(r) :
         LET c == calls[r][i]
         IN /\ CarriesText(c) # CarriesFile(c)
            /\ CarriesFile(c) <=> HeaderHasMultipart(r)
            /\ CarriesFile(c) =>
                 /\ UploadCalls(r) = {i - 1}
                 /\ calls[r][i - 1].reply.k = "ok"
                 /\ Len(c.content) = 2
            /\ CarriesText(c) =>
                 /\ UploadCalls(r) = {}
                 /\ BodyText(r).t = "str"
                 /\ c.prompt[Len(c.prompt)] = BodyText(r).v[Len(BodyText(r).v)]

\* C18 witness: a request whose header names the multipart type with a
\* boundary parameter had its image uploaded and sent to the model
C18_Witness ==
  \E r \in Reqs :
    /\ Len(request[r].contentType) > 1
    /\ \E i \in FirstPassCalls(r) : "input_image" \in {calls[r][i].content[j] : j \in DOMAIN calls[r][i].content}

\* the first pass has ended without a validated document: the provider
\* threw, returned nothing, returned text that is not JSON, or returned JSON
\* that does not fit the response schema
FirstPassFailed(r) ==
  LET reply == PassReply(r, 1)
  IN \/ reply.k = "throw"
     \/ /\ reply.k = "ok"
        /\ \/ reply.text.k \in {"absent", "empty", "garbage"}
           \/ reply.text.k = "json" /\ ~IsTransformResponse(reply.text.j)

\* C19: within a request the restyle (second) model call never starts
\* before the first pass's output has been parsed as JSON and validated
\* against the response schema; if the first pass fails at any stage
\* (provider error, empty output, malformed JSON, schema mismatch) the
\* restyle call is never issued.
C19_RewriteOnlyAfterValidation ==
  \A r \in Reqs :
    /\ \A i \in DOMAIN calls[r] :
         calls[r][i].pass = 2 =>
           /\ i > 1
           /\ calls[r][i - 1].pass = 1
           /\ calls[r][i - 1].reply.k = "ok"
           /\ calls[r][i - 1].reply.text.k = "json"
           /\ IsTransformResponse(calls[r][i - 1].reply.text.j)
           /\ validated[r].t = "obj"
    /\ FirstPassFailed(r) => ~Issued(r, 2) /\ pc[r] = "done"
    /\ (Issued(r, 1) /\ PassReply(r, 1) = Pending) => ~Issued(r, 2)

\* C19 witness: the restyle call is in flight after a first pass whose
\* document carried keys outside the schema
C19_Witness ==
  \E r \in Reqs :
    /\ pc[r] = "pass2"
    /\ PassReply(r, 2) = Pending
    /\ PassReply(r, 1).text = JsonText(ExtraKeyDoc)

\* the request cannot pass request validation on the branch its header
\* selects
RequestInvalid(r) ==
  IF HeaderHasMultipart(r)
  THEN \/ request[r].body.kind # "form"
       \/ FormNotes(r).t = "str" /\ StrLen(FormNotes(r).v) > MAX_NOTES_CHARS
       \/ FormFile(r).t # "file"
       \/ FormFile(r).v.size > MAX_FILE_BYTES
  ELSE \/ request[r].body.kind # "json"
       \/ request[r].body.json.t # "obj"
       \/ BodyText(r).t # "str"
       \/ StrLen(BodyText(r).v) < 1
       \/ StrLen(BodyText(r).v) > MAX_INPUT_CHARS
       \/ BodyNotes(r).t \notin {"undefined", "str"}
       \/ BodyNotes(r).t = "str" /\ StrLen(BodyNotes(r).v) > MAX_NOTES_CHARS

\* C20: for every request that fails request validation (missing file,
\* oversize file, oversize notes, invalid or oversize text, unparsable JSON
\* body) the rejection is produced before any external call: no file upload
\* and no model call occurs in an execution that ends in a validation
\* rejection.
C20_RejectedBeforeAnyCall ==
  \A r \in Reqs :
    (pc[r] \notin {"idle", "off"} /\ RequestInvalid(r)) =>
      /\ calls[r] = <<>>
      /\ pc[r] \in {"formData", "json", "done"}
      /\ pc[r] = "done" => resp[r].status >= 400 /\ IsErrorBody(resp[r].body)

\* C20 witness: a multipart request with an oversize file has been
\* rejected
C20_Witness ==
  \E r \in Reqs :
    /\ pc[r] = "done"
    /\ HeaderHasMultipart(r)
    /\ FormFile(r).t = "file"
    /\ FormFile(r).v.size > MAX_FILE_BYTES
    /\ FormNotes(r).t = "null"
    /\ resp[r].status = 413
    /\ calls[r] = <<>>

RewriteCalls(r) == {i \in DOMAIN calls[r] : calls[r][i].pass = 2}

\* a settled call of the request threw, or the first pass returned text
\* that cannot be used
SomeCallFailed(r) ==
  \/ \E i \in DOMAIN calls[r] : calls[r][i].reply.k = "throw"
  \/ FirstPassFailed(r)

\* C21: there is no automatic retry: within one request the first-pass
\* model call is issued at most once and the restyle call at most once, and
\* after any failure that ends the request (rejection, upstream failure,
\* malformed output, schema mismatch) no further external call is issued
\* for that request.
C21_NoRetry ==
  [][\A r \in Reqs :
       /\ Cardinality(FirstPassCalls(r))' <= 1
       /\ Cardinality(RewriteCalls(r))' <= 1
       /\ Cardinality(UploadCalls(r))' <= 1
       /\ SomeCallFailed(r)' =>
            /\ pc'[r] = "done"
            /\ calls'[r][Len(calls'[r])].reply # Pending
       /\ pc[r] = "done" => calls'[r] = calls[r] /\ pc'[r] = "done"
       /\ (pc'[r] = "done" /\ resp'[r].status # 200) =>
            \A i \in DOMAIN calls'[r] : calls'[r][i].reply # Pending]_vars

\* C21 witness: the first pass threw and the request has ended with that
\* single model call on record
C21_Witness ==
  \E r \in Reqs :
    /\ pc[r] = "done"
    /\ PassReply(r, 1).k = "throw"
    /\ Len(calls[r]) = 1

\* the handler is running for the request
InFlight(r) == pc[r] \in {"formData", "upload", "json", "pass1", "pass2"}

\* a response of the Delivered outcome, or an error response
IsDelivered(response) == response.status = 200 /\ IsTransformResponse(response.body)
IsErrorResponse(response) == response.status >= 400 /\ IsErrorBody(response.body)

\* C22: assuming every external call (body read, file upload, model calls)
\* eventually returns or throws, every request eventually reaches exactly
\* one terminal outcome, either Delivered (200) or one error response, and
\* produces exactly one HTTP response; no exception escapes the handler.
C22_EveryRequestAnswered ==
  /\ \A r \in Reqs : InFlight(r) ~> (pc[r] = "done")
  /\ [](\A r \in Reqs :
          /\ Responded(r) <=> pc[r] = "done"
          /\ Responded(r) => (IsDelivered(resp[r]) # IsErrorResponse(resp[r])))
  /\ [][\A r \in Reqs : Responded(r) => resp'[r] = resp[r] /\ pc'[r] = "done"]_vars

\* C22 witness: a request that went through upload, first pass and rewrite
\* pass has been answered with the document
C22_Witness ==
  \E r \in Reqs :
    /\ pc[r] = "done"
    /\ Len(calls[r]) = 3
    /\ IsDelivered(resp[r])

\* the replies the provider gave to the request's calls, in call order
Replies(r) == [i \in DOMAIN calls[r] |-> calls[r][i].reply]

\* the response of the handler from the first model reply on, given the
\* notes of the request and the replies to its model calls
ModelOutcomeAlone(notes, rs) ==
  LET parsed == JSONparse(rs[1].text)
      issues == ZIssues(transformResponseSchema, parsed.val)
      doc == ZOut(transformResponseSchema, parsed.val)
  IN IF rs[1].k = "throw" THEN OuterCatch(rs[1].err)
     ELSE IF IsFalsyText(rs[1].text)
     THEN OuterCatch(Thrown("Error", JObj([message |-> JStr(Lit("No response from OpenAI"))])))
     ELSE IF ~parsed.ok THEN InvalidFormatResponse
     ELSE IF issues # {} THEN OuterCatch(ZodError(issues))
     ELSE IF ~shouldApplyNotesRewritePass(notes) THEN Deliver(doc, notes)
     ELSE IF rs[2].k = "throw" THEN OuterCatch(rs[2].err)
     ELSE Deliver(RewriteOrFallback(doc, rs[2].text), notes)

\* the response the handler gives to a request it handles alone, when the
\* provider answers its calls with the replies rs
ResponseAlone(e, req, rs) ==
  LET form == req.body.form
      formIssues == IF form.notes.t = "str"
                    THEN ZIssues(transformFileNotesSchema, JObj([notes |-> form.notes]))
                    ELSE {}
      formNotes == IF form.notes.t = "str"
                   THEN Get(ZOut(transformFileNotesSchema, JObj([notes |-> form.notes])), "notes")
                   ELSE JUndef
      jsonIssues == ZIssues(transformRequestSchema, req.body.json)
      jsonNotes == Get(ZOut(transformRequestSchema, req.body.json), "notes")
  IN IF MissingApiKey(e) THEN MissingKeyResponse
     ELSE IF IsMultipart(req.contentType)
     THEN IF req.body.kind # "form"
          THEN OuterCatch(Thrown("TypeError",
                 JObj([message |-> JStr(Lit("Failed to parse body as FormData."))])))
          ELSE IF formIssues # {} THEN OuterCatch(ZodError(formIssues))
          ELSE IF ~IsFileInstance(form.file) THEN MissingFileResponse
          ELSE IF FileSize(form.file) > MAX_FILE_BYTES THEN FileTooLargeResponse(form.file)
          ELSE IF rs[1].k = "throw" THEN OuterCatch(rs[1].err)
          ELSE ModelOutcomeAlone(formNotes, Tail(rs))
     ELSE IF req.body.kind # "json"
          THEN JsonBodyCatch(Thrown("SyntaxError",
                 JObj([message |-> JStr(Lit("Unexpected token"))])))
          ELSE IF jsonIssues # {} THEN JsonBodyCatch(ZodError(jsonIssues))
          ELSE ModelOutcomeAlone(jsonNotes, rs)

\* the part of the state that belongs to one request
OwnState(r) == <<pc[r], request[r], notesForRequest[r], validated[r], calls[r], resp[r]>>

\* C23: requests do not interfere: for any interleaving of the steps of two
\* concurrently handled requests, each request's response equals the
\* response it would get if handled alone with the same provider replies;
\* no handler step reads or writes state written by another request.
C23_RequestsDoNotInterfere ==
  [][\A r \in Reqs :
       /\ Responded(r)' => resp'[r] = ResponseAlone(env, request[r], Replies(r))'
       /\ \A q \in Reqs \ {r} : pc'[r] # pc[r] => OwnState(q)' = OwnState(q)]_vars

\* C23 witness: one request was answered after its rewrite pass while the
\* other, which has no notes, waits for its first pass
C23_Witness ==
  \E r \in Reqs : \E q \in Reqs \ {r} :
    /\ pc[r] = "done"
    /\ IsDelivered(resp[r])
    /\ Len(calls[r]) >= 2
    /\ NotesNonBlank(r)
    /\ pc[q] = "pass1"
    /\ notesForRequest[q] = JUndef

\* the rewrite pass returned a conforming document
RewriteSucceeded(r) ==
  ReturnedJson(r, 2) /\ IsTransformResponse(PassReply(r, 2).text.j)

\* C24: when the second pass succeeds (its output is non-empty, parses as
\* JSON and matches the schema) the delivered document is the sanitized
\* second-pass document in full; in every case the delivered document
\* before sanitization is exactly one of the two validated documents (first
\* pass or second pass), never a field-by-field mixture of both.
C24_DeliveredIsOneValidatedDocument ==
  \A r \in Reqs :
    resp[r].status = 200 =>
      LET first == SchemaFieldsOf(PassReply(r, 1).text.j)
      IN /\ FirstPassValidated(r)
         /\ IF RewriteSucceeded(r)
            THEN /\ validated[r] = SchemaFieldsOf(PassReply(r, 2).text.j)
                 /\ IsSanitizedFrom(resp[r].body, SchemaFieldsOf(PassReply(r, 2).text.j))
            ELSE /\ validated[r] = first
                 /\ IsSanitizedFrom(resp[r].body, first)

\* C24 witness: a delivered second-pass document whose sections and
\* meaningful next actions both differ from the first-pass document's
C24_Witness ==
  \E r \in Reqs :
    /\ resp[r].status = 200
    /\ RewriteSucceeded(r)
    /\ FirstPassValidated(r)
    /\ SchemaFieldsOf(PassReply(r, 2).text.j).v.sections
         # SchemaFieldsOf(PassReply(r, 1).text.j).v.sections
    /\ ~IsSanitizedFrom(resp[r].body, SchemaFieldsOf(PassReply(r, 1).text.j))
    /\ PassReply(r, 1).text.j.v.next_actions.v # <<>>

\* the first-pass call returned, with output text that is absent or empty
FirstPassReturnedNothing(r) ==
  PassReply(r, 1).k = "ok" /\ PassReply(r, 1).text.k \in {"absent", "empty"}

\* C25: when the first-pass model call returns successfully but with empty
\* or absent output text, the request fails with status 500 and the message
\* "No response from OpenAI", not with 502, and no JSON parsing, restyle
\* call or sanitization takes place.
C25_EmptyFirstPassIs500 ==
  \A r \in Reqs :
    FirstPassReturnedNothing(r) =>
      /\ pc[r] = "done"
      /\ resp[r].status = 500
      /\ IsErrorBody(resp[r].body)
      /\ resp[r].body.v.error.v = Lit("No response from OpenAI")
      /\ validated[r] = JUndef
      /\ ~Issued(r, 2)
      /\ resp[r].headers = NoHeaders

\* C25 witness: the first pass of a request with non-blank notes returned
\* the empty string and the request has been answered
C25_Witness ==
  \E r \in Reqs :
    /\ PassReply(r, 1) = Returned(EmptyText)
    /\ NotesNonBlank(r)
    /\ InJsonBranch(r)
    /\ resp[r].status = 500

\* the fields of a document that sanitization must leave alone
FrameOfSanitize(doc) == [k \in DOMAIN doc.v \ {"next_actions"} |-> doc.v[k]]

\* C26: sanitization changes only next_actions: for every validated
\* document, the delivered title, summary and sections (headings, bullets
\* and their order, including empty strings and empty bullet lists) are
\* identical to those of the validated document it was computed from.
C26_SanitizeChangesOnlyNextActions ==
  \A r \in Reqs :
    resp[r].status = 200 =>
      /\ DOMAIN resp[r].body.v = DOMAIN validated[r].v
      /\ FrameOfSanitize(resp[r].body) = FrameOfSanitize(validated[r])
      /\ resp[r].body.v.title = validated[r].v.title
      /\ resp[r].body.v.summary = validated[r].v.summary
      /\ resp[r].body.v.sections = validated[r].v.sections

\* C26 witness: a delivered document that lost a next action and kept a
\* section with an empty bullet
C26_Witness ==
  \E r \in Reqs :
    /\ resp[r].status = 200
    /\ Len(resp[r].body.v.next_actions.v) < Len(validated[r].v.next_actions.v)
    /\ \E i \in DOMAIN resp[r].body.v.sections.v :
         \E j \in DOMAIN resp[r].body.v.sections.v[i].v.bullets.v :
           resp[r].body.v.sections.v[i].v.bullets.v[j] = JStr(Empty)

\* -------------------------------------------------------------- client page

\* bounds of the client model
MaxPendingExtractions == 2
MaxTextRuns == 1

MAX_TEXT_CHARS == 100000
MAX_FILE_SIZE == 10 * 1024 * 1024

sampleText ==
  Lit("hey team just wanted to recap our meeting today - so basically we decided to launch on march 15 which is pretty tight but doable, budget wise we got the 250k approved which is awesome!!! sarah you're doing frontend mike backend and lisa design/ux stuff. we need to finalize design system by feb 1 and we'll do weekly checkins monday 2pm. action items: schedule design review, setup repo and ci/cd, write tech spec, and confirm vendor stuff by friday!")

\* the page's copy of the response schema
clientTransformResponseSchema ==
  ZObject([title |-> ZString(0, NoMax),
           summary |-> ZString(0, NoMax),
           sections |-> ZArray(ZObject([heading |-> ZString(0, NoMax),
                                        bullets |-> ZArray(ZString(0, NoMax))])),
           next_actions |-> ZArray(ZObject([action |-> ZString(0, NoMax),
                                            first_step |-> ZString(0, NoMax)]))])

\* String.prototype.slice(0, n); a run of a chunk longer than one character
\* is cut at a chunk boundary
RECURSIVE Slice(_, _)
Slice(str, n) ==
  IF str = <<>> \/ n <= 0 THEN <<>>
  ELSE LET run == Head(str)
           size == Len(run.c) * run.n
       IN IF size <= n
          THEN <<run>> \o Slice(Tail(str), n - size)
          ELSE Rep(run.c, n \div Len(run.c))

\* (x).toFixed(1) of bytes / unit
ToFixed1(bytes, unit) ==
  LET tenths == (20 * bytes + unit) \div (2 * unit)
  IN ToString(tenths \div 10) \o "." \o ToString(tenths % 10)

formatFileSize(bytes) ==
  IF bytes < 1024 THEN Lit(ToString(bytes)) \o Sp \o Lit("B")
  ELSE IF bytes < 1024 * 1024 THEN Lit(ToFixed1(bytes, 1024)) \o Sp \o Lit("KB")
  ELSE Lit(ToFixed1(bytes, 1024 * 1024)) \o Sp \o Lit("MB")

\* what the user can type or paste into the text area
TypedTexts ==
  {Empty, Sp, Lit("a"), Rep("a", MAX_TEXT_CHARS), Rep("a", MAX_TEXT_CHARS + 1)}

\* the files the user can pick
PageFile(name, size, type) == [t |-> "file", v |-> [size |-> size, type |-> type, name |-> name]]

PageFiles ==
  {PageFile("a.pdf", 1, "application/pdf"),
   PageFile("b.png", MAX_FILE_SIZE, "image/png"),
   PageFile("c.pdf", MAX_FILE_SIZE + 1, "application/pdf")}

\* how an extraction (pdf.js, Papa.parse, tesseract, file.text) can end
ExtractionOutcomes ==
  {[k |-> "ok", text |-> t] : t \in {Sp, Lit("b"), Rep("b", MAX_TEXT_CHARS + 1)}}
    \cup {[k |-> "throw", text |-> Lit("Invalid PDF structure.")]}

\* how the fetch of /api/transform can end: a response with a status and a
\* body text, or a rejected promise
FetchResponse(status, body) == [k |-> "response", status |-> status, body |-> body]

FetchOutcomes ==
  {FetchResponse(200, JsonText(MkDoc(<<Act(Lit("a"), Lit("b"))>>))),
   FetchResponse(200, JsonText(JObj([title |-> JStr(Lit("t"))]))),
   FetchResponse(200, Garbage),
   FetchResponse(413, JsonText(JObj([error |-> JStr(Lit("Input text is too large."))]))),
   FetchResponse(500, JsonText(JObj([error |-> JStr(Empty)]))),
   FetchResponse(502, Garbage),
   [k |-> "throw", status |-> 0, body |-> NoText]}

\* the arguments of a fetch call
JsonFetch(text) == [contentType |-> "application/json", text |-> text, file |-> JNull]
FormFetch(file) == [contentType |-> "multipart/form-data", text |-> Empty, file |-> file]

RemoveAt(seq, i) == SubSeq(seq, 1, i - 1) \o SubSeq(seq, i + 1, Len(seq))

\* disabled={(!selectedFile && !inputText.trim()) || isProcessing}
SubmitDisabled ==
  (selectedFile = JNull /\ StrLen(Trim(inputText)) = 0) \/ isProcessing

\* mutant: the error panel, with its button, is shown while processing too
TryAgainVisible_WhileProcessing == pageError # JNull

\* {error && !isProcessing && ( ... <Button onClick={handleMakeUsable}>Try again ...)}
TryAgainVisible == pageError # JNull /\ pageError.v # Empty /\ ~isProcessing

\* the rendered panels
ErrorPanelShown == pageError # JNull /\ pageError.v # Empty /\ ~isProcessing
OutputShown == ~isProcessing /\ hasOutput /\ output # JNull

\* handleMakeUsable up to its await
handleMakeUsable ==
  IF selectedFile = JNull /\ StrLen(Trim(inputText)) = 0
  THEN UNCHANGED clientVars
  ELSE IF selectedFile = JNull /\ StrLen(inputText) > MAX_TEXT_CHARS
  THEN /\ pageError' =
            JStr(Lit("This input is too long (") \o toLocaleString(StrLen(inputText))
                   \o Sp \o Lit("chars). Maximum is") \o Sp \o toLocaleString(MAX_TEXT_CHARS)
                   \o Sp \o Lit("chars. Try shortening the text or uploading a file instead."))
       /\ UNCHANGED <<inputText, isProcessing, isExtracting, hasOutput, output,
                      selectedFile, uploadedFileName, fetches, extractions>>
  ELSE /\ isProcessing' = TRUE
       /\ hasOutput' = FALSE
       /\ pageError' = JNull
       /\ output' = JNull
       /\ fetches' = Append(fetches,
                            IF StrLen(Trim(inputText)) > 0
                            THEN JsonFetch(inputText)
                            ELSE FormFetch(selectedFile))
       /\ UNCHANGED <<inputText, isExtracting, selectedFile, uploadedFileName, extractions>>

\* the "Make this usable" button is clicked
ClickMakeUsable ==
  /\ ~SubmitDisabled
  /\ handleMakeUsable
  /\ UNCHANGED serverVars

\* the "Try again" button of the error panel is clicked
ClickTryAgain ==
  /\ TryAgainVisible
  /\ handleMakeUsable
  /\ UNCHANGED serverVars

\* the message handleMakeUsable ends with, or JNull when it has a document
FetchError(o) ==
  LET fallback == Lit("Request failed (") \o Lit(ToString(o.status)) \o Lit(")")
      data == JSONparse(o.body)
  IN IF o.k = "throw" THEN JStr(Lit("Failed to fetch"))
     ELSE IF o.status < 200 \/ o.status > 299
     THEN IF data.ok /\ Get(data.val, "error").t = "str" /\ Get(data.val, "error").v # Empty
          THEN Get(data.val, "error")
          ELSE JStr(fallback)
     ELSE IF ~data.ok THEN JStr(Lit("Unexpected token"))
     ELSE IF ZIssues(clientTransformResponseSchema, data.val) # {}
     THEN JStr(Lit("[ { \"code\": \"invalid_type\" } ]"))
     ELSE JNull

\* a fetch settles: the rest of handleMakeUsable, its catch and its finally
FetchSettles ==
  \E i \in DOMAIN fetches :
    /\ \E o \in FetchOutcomes :
         LET message == FetchError(o)
         IN IF message = JNull
            THEN /\ output' = ZOut(clientTransformResponseSchema, JSONparse(o.body).val)
                 /\ hasOutput' = TRUE
                 /\ UNCHANGED pageError
            ELSE /\ pageError' = message
                 /\ UNCHANGED <<output, hasOutput>>
    /\ isProcessing' = FALSE
    /\ fetches' = RemoveAt(fetches, i)
    /\ UNCHANGED <<inputText, isExtracting, selectedFile, uploadedFileName, extractions>>
    /\ UNCHANGED serverVars

\* handleFileUpload up to its await: a file is picked
handleFileUpload(file) ==
  /\ Len(extractions) < MaxPendingExtractions
  /\ Len(inputText) <= MaxTextRuns
  /\ IF file.v.size > MAX_FILE_SIZE
     THEN /\ pageError' =
               JStr(Lit("File is too large. Maximum size:") \o Sp \o formatFileSize(MAX_FILE_SIZE)
                      \o Lit(". Your file:") \o Sp \o formatFileSize(file.v.size) \o Lit("."))
          /\ UNCHANGED <<inputText, isProcessing, isExtracting, hasOutput, output,
                         selectedFile, uploadedFileName, fetches, extractions>>
     ELSE /\ pageError' = JNull
          /\ selectedFile' = file
          /\ uploadedFileName' = JStr(Lit(file.v.name))
          /\ hasOutput' = FALSE
          /\ isExtracting' = TRUE
          /\ extractions' = Append(extractions, file)
          /\ UNCHANGED <<inputText, isProcessing, output, fetches>>
  /\ UNCHANGED serverVars

\* setInputText((prev) => ...)
AppendExtracted(prev, extracted) ==
  IF Trim(prev) = Empty THEN extracted
  ELSE Trim(prev) \o Rep("\n", 2) \o Lit("---") \o Rep("\n", 2) \o extracted

\* an extraction settles: the rest of handleFileUpload, its catch and its
\* finally
ExtractionSettles(i) ==
  /\ i \in DOMAIN extractions
  /\ \E o \in ExtractionOutcomes :
       IF o.k = "throw"
       THEN /\ pageError' = JStr(Lit("Failed to extract text from file:") \o Sp \o o.text)
            /\ UNCHANGED inputText
       ELSE IF StrLen(Trim(o.text)) = 0
       THEN /\ pageError' = JStr(Lit("Couldn't extract any readable text from that file. If it's a scanned PDF/image, try a clearer scan or upload the image directly for OCR."))
            /\ UNCHANGED inputText
       ELSE IF StrLen(o.text) > MAX_TEXT_CHARS
       THEN /\ pageError' =
                 JStr(Lit("Extracted text is very long (") \o toLocaleString(StrLen(o.text))
                        \o Sp \o Lit("chars). Showing the first") \o Sp
                        \o toLocaleString(MAX_TEXT_CHARS) \o Sp \o Lit("chars."))
            /\ inputText' = AppendExtracted(inputText, Slice(o.text, MAX_TEXT_CHARS))
       ELSE /\ inputText' = AppendExtracted(inputText, o.text)
            /\ UNCHANGED pageError
  /\ isExtracting' = FALSE
  /\ extractions' = RemoveAt(extractions, i)
  /\ UNCHANGED <<isProcessing, hasOutput, output, selectedFile, uploadedFileName, fetches>>
  /\ UNCHANGED serverVars

\* the "Remove" button next to the loaded file's name
ClickRemove ==
  /\ uploadedFileName # JNull
  /\ selectedFile' = JNull
  /\ uploadedFileName' = JNull
  /\ isExtracting' = FALSE
  /\ UNCHANGED <<inputText, isProcessing, hasOutput, output, pageError, fetches, extractions>>
  /\ UNCHANGED serverVars

handleUseSample ==
  /\ inputText' = sampleText
  /\ hasOutput' = FALSE
  /\ selectedFile' = JNull
  /\ uploadedFileName' = JNull
  /\ UNCHANGED <<isProcessing, isExtracting, output, pageError, fetches, extractions>>
  /\ UNCHANGED serverVars

\* the text area's onChange
EditText(text) ==
  /\ inputText' = text
  /\ UNCHANGED <<isProcessing, isExtracting, hasOutput, output, pageError,
                 selectedFile, uploadedFileName, fetches, extractions>>
  /\ UNCHANGED serverVars

\* the page alone: no request is being handled by the server model
InitClient ==
  /\ env = [OPENAI_API_KEY |-> TRUE]
  /\ pc = [r \in Reqs |-> "off"]
  /\ request = [r \in Reqs |-> NoRequest]
  /\ notesForRequest = [r \in Reqs |-> JUndef]
  /\ validated = [r \in Reqs |-> JUndef]
  /\ calls = [r \in Reqs |-> <<>>]
  /\ resp = [r \in Reqs |-> NoResp]
  /\ ClientInit

NextClient ==
  \/ ClickMakeUsable
  \/ ClickTryAgain
  \/ FetchSettles
  \/ \E file \in PageFiles : handleFileUpload(file)
  \/ \E i \in 1..MaxPendingExtractions : ExtractionSettles(i)
  \/ ClickRemove
  \/ handleUseSample
  \/ \E text \in TypedTexts : EditText(text)

SpecClient == InitClient /\ [][NextClient]_vars

\* C27: in the client page at most one transform request is in flight at
\* any time: while isProcessing is true neither the submit button nor the
\* "Try again" button can start another request, and isProcessing is reset
\* to false after every submission, whether the fetch succeeded, returned
\* an error status, returned a body that fails schema validation, or threw.
C27_OneRequestInFlight ==
  [][/\ Len(fetches') <= 1
     /\ isProcessing' <=> fetches' # <<>>
     /\ Len(fetches') > Len(fetches) => ~isProcessing /\ fetches = <<>>
     /\ Len(fetches') < Len(fetches) => ~isProcessing'
     /\ isProcessing' => SubmitDisabled' /\ ~TryAgainVisible']_vars

\* C27 witness: a request is in flight while an error message, set by a
\* file that was too large, is pending
C27_Witness ==
  /\ Len(fetches) = 1
  /\ isProcessing
  /\ pageError # JNull
  /\ hasOutput = FALSE

\* C28 (as claimed): in every reachable state of the client page the error
\* panel and the rendered output document are never displayed at the same
\* time (error is non-null and not processing implies hasOutput is false),
\* and hasOutput is true only if output is a schema-valid document.
C28_ErrorAndOutputExclusive ==
  /\ (pageError # JNull /\ ~isProcessing) => ~hasOutput
  /\ ~(ErrorPanelShown /\ OutputShown)
  /\ hasOutput => IsTransformResponse(output)

\* the step ends the extraction of a file that is no longer the selected
\* one: it was removed, or another file was picked after it
StaleExtractionSettles ==
  \E i \in DOMAIN extractions :
    /\ extractions' = RemoveAt(extractions, i)
    /\ extractions[i] # selectedFile

\* C29 (as claimed): in the client page isExtracting is true exactly while a
\* file extraction is in progress, under every interleaving of file
\* selections, the Remove action and extraction completions; and text
\* extracted from a file that was removed (or replaced) before its
\* extraction finished is not written into the input text.
C29_ExtractingFlagAndStaleText ==
  [][/\ isExtracting' <=> extractions' # <<>>
     /\ StaleExtractionSettles => inputText' = inputText]_vars

\* C30 (as claimed): the client never sends a JSON text request whose text
\* is longer than MAX_TEXT_CHARS (100,000, kept in sync with the server's
\* MAX_INPUT_CHARS): in every reachable client state, including when a
\* file is selected and when extracted text was appended to existing input,
\* no fetch with over-long text is issued.
C30_NoOverlongTextSent ==
  /\ MAX_TEXT_CHARS = MAX_INPUT_CHARS
  /\ \A i \in DOMAIN fetches :
       fetches[i].contentType = "application/json"
         => StrLen(fetches[i].text) <= MAX_TEXT_CHARS

====
